---- MODULE Spec2Model ----
(***************************************************************************)
(* Model of app.py: the CSV loader (load_data), the insight engine         *)
(* (get_retail_insights with its nested suggest_dynamic_price) and the     *)
(* Flask routes (index, raw_data_page, about_page, contact_page).          *)
(*                                                                         *)
(* Numbers.  Prices are integers counted in thousandths of the currency    *)
(* unit ("mills"): 1005 is 1.005.  A nullable number is a sequence: <<>> is *)
(* NaN (an empty CSV cell) and <<v>> is the value v.  A mean is the exact  *)
(* rational [num |-> sum, den |-> count]; for the small integers used here *)
(* the float quotient compares with 70 and 40 exactly as the rational.     *)
(***************************************************************************)
EXTENDS Integers, Sequences, FiniteSets, TLC

VARIABLES
    df,      \* the DataFrame handed to get_retail_insights (a sequence of rows)
    out,     \* what that call produced: pending, a DataFrame, or a raised exception
    tieUp,   \* which way round(x, 2) falls when x is a decimal tie (see round2)
    file,    \* what is at DATA_FILE right now: absent, unreadable, or a CSV
    log      \* the responses served so far, oldest first

vars == <<df, out, tieUp, file, log>>

(***************************************************************************)
(* Bounds of the model.                                                    *)
(***************************************************************************)
MaxRows == 3
MaxRequests == 2

(***************************************************************************)
(* Values.                                                                 *)
(***************************************************************************)
NaN == <<>>
Num(v) == <<v>>
None == [kind |-> "None"]
DataFrame(rows) == [kind |-> "DataFrame", rows |-> rows]
Raised(exc) == [kind |-> "raise", exc |-> exc]
Str(parts) == [kind |-> "str", parts |-> parts]

DATA_FILE == "retail_data.csv"

\* Input cells.  (Product_ID, Store_ID, Region): the pair (1, 1) occurs under
\* two Regions, and (2, 1) is a second (Product_ID, Store_ID) pair.
MainKeys == {<<1, 1, 1>>, <<1, 1, 2>>}
OtherKey == <<2, 1, 1>>
\* Daily_Sales_Units: below 40, exactly 70, above 70; (10 + 70) / 2 is exactly 40.
SalesVals == {10, 70, 100}
\* (Base_Price, Competitor_Price): an empty Base_Price cell, a price with three
\* decimals (1.005) and a price with two (0.30).
PriceVals == {<<NaN, Num(950)>>, <<Num(1005), Num(980)>>, <<Num(300), Num(280)>>}

Row(k, s, p) ==
    [Product_ID |-> k[1], Store_ID |-> k[2], Region |-> k[3],
     Daily_Sales_Units |-> s, Base_Price |-> p[1], Competitor_Price |-> p[2]]

\* every combination under the pair (1, 1); the second pair with one sales value
Rows ==
    {Row(k, s, p) : k \in MainKeys, s \in SalesVals, p \in PriceVals}
        \cup {Row(OtherKey, 70, p) : p \in PriceVals}

Datasets == UNION {[1..n -> Rows] : n \in 0..MaxRows}

(***************************************************************************)
(* get_retail_insights, step 1: groupby(...)['Daily_Sales_Units'].mean()   *)
(***************************************************************************)
key3(r) == <<r.Product_ID, r.Store_ID, r.Region>>
key2(r) == <<r.Product_ID, r.Store_ID>>

\* lexicographic order of the group keys (groupby sorts its groups, sort=True)
KeyLeq(a, b) ==
    \/ a[1] < b[1]
    \/ a[1] = b[1] /\ a[2] < b[2]
    \/ a[1] = b[1] /\ a[2] = b[2] /\ a[3] <= b[3]

RECURSIVE SortKeys(_)
SortKeys(K) ==
    IF K = {} THEN <<>>
    ELSE LET m == CHOOSE k \in K : \A o \in K : KeyLeq(k, o)
         IN  <<m>> \o SortKeys(K \ {m})

RECURSIVE SeqSum(_)
SeqSum(s) == IF s = <<>> THEN 0 ELSE Head(s).Daily_Sales_Units + SeqSum(Tail(s))

\* the mean of one group: sum / count, kept as the exact rational
mean(group) == [num |-> SeqSum(group), den |-> Len(group)]

\* GroupKey with Region left out of the grouping columns
GroupKey_NoRegion(r) == <<r.Product_ID, r.Store_ID, 0>>

\* the key columns a frame is grouped by
GroupKey(r) == key3(r)

avg_sales(d) ==
    LET ks == SortKeys({GroupKey(d[i]) : i \in DOMAIN d})
    IN  [j \in DOMAIN ks |->
            LET g == SelectSeq(d, LAMBDA r : GroupKey(r) = ks[j])
            IN  [Product_ID |-> g[1].Product_ID, Store_ID |-> g[1].Store_ID,
                 Region |-> g[1].Region,
                 Inventory_Forecast_Units |-> mean(g)]]

(***************************************************************************)
(* get_retail_insights, step 2: drop_duplicates(subset=[Product_ID,        *)
(* Store_ID], keep='last') and the projection on the four columns.         *)
(***************************************************************************)
\* the columns two rows must agree on to count as duplicates
DupKey(r) == key2(r)

\* Kept with keep='first' in place of keep='last'
Kept_First(d, i) == \A j \in DOMAIN d : j < i => DupKey(d[j]) # DupKey(d[i])

\* keep='last': row i stays when no later row has the same subset columns
Kept(d, i) == \A j \in DOMAIN d : j > i => DupKey(d[j]) # DupKey(d[i])

RECURSIVE Pick(_, _, _)
Pick(d, keep, i) ==
    IF i > Len(d) THEN <<>>
    ELSE (IF i \in keep THEN <<d[i]>> ELSE <<>>) \o Pick(d, keep, i + 1)

latest_prices(d) ==
    LET kept == Pick(d, {i \in DOMAIN d : Kept(d, i)}, 1)
    IN  [j \in DOMAIN kept |->
            [Product_ID |-> kept[j].Product_ID, Store_ID |-> kept[j].Store_ID,
             Base_Price |-> kept[j].Base_Price,
             Competitor_Price |-> kept[j].Competitor_Price]]

(***************************************************************************)
(* pd.merge(avg_sales, latest_prices, on=[Product_ID, Store_ID],           *)
(* how='left'): every left row, once per matching right row, in left       *)
(* order; a left row without a match gets NaN price columns.               *)
(***************************************************************************)
Joined(l, r) ==
    [Product_ID |-> l.Product_ID, Store_ID |-> l.Store_ID, Region |-> l.Region,
     Inventory_Forecast_Units |-> l.Inventory_Forecast_Units,
     Base_Price |-> r.Base_Price, Competitor_Price |-> r.Competitor_Price]

RECURSIVE merge(_, _)
merge(left, right) ==
    IF left = <<>> THEN <<>>
    ELSE LET l == Head(left)
             m == SelectSeq(right, LAMBDA r : key2(r) = key2(l))
             rows == IF m = <<>>
                     THEN <<Joined(l, [Base_Price |-> NaN, Competitor_Price |-> NaN])>>
                     ELSE [j \in DOMAIN m |-> Joined(l, m[j])]
         IN  rows \o merge(Tail(left), right)

(***************************************************************************)
(* get_retail_insights, step 3: suggest_dynamic_price.                     *)
(***************************************************************************)
\* the three labels (the leading arrow and dash glyphs of the source are left out)
INCREASE == "Increase Price (High Demand/Low Stock Risk)"
DECREASE == "Decrease Price (Low Demand/Overstock Risk)"
HOLD == "Hold Price (Stable Demand)"

\* Gt with >= in place of >
Gt_OrEqual(f, n) == f.num >= n * f.den

\* forecast > n and forecast < n for the mean num / den (den > 0)
Gt(f, n) == f.num > n * f.den
Lt(f, n) == f.num < n * f.den

\* times with a null base_price taken as 0 (a fillna(0) before the product)
times_NaNAsZero(p, num) ==
    IF p = NaN THEN <<[n |-> 0, d |-> 100]>> ELSE <<[n |-> p[1] * num, d |-> 100]>>

\* base_price * (num / 100): NaN stays NaN; otherwise the exact product, as
\* the rational n / d of a mill
times(p, num) == IF p = NaN THEN NaN ELSE <<[n |-> p[1] * num, d |-> 100]>>

\* round2 cutting the third decimal off instead of rounding to the nearest cent
round2_Floor(x) ==
    IF x = NaN THEN NaN ELSE Num(10 * (x[1].n \div (10 * x[1].d)))

\* round2 as round(x, 3)
round2_ThreeDecimals(x) ==
    IF x = NaN THEN NaN
    ELSE LET q == x[1].n \div x[1].d
             r == x[1].n % x[1].d
         IN  IF 2 * r < x[1].d THEN Num(q) ELSE Num(q + 1)

\* round(x, 2) for x = n / d mills: the nearest whole cent (10 mills), given
\* back in mills.  NaN rounds to NaN.  When x lies exactly between two cents
\* the result depends on which side of the tie the binary double of x falls
\* (0.3 * 1.05 rounds to 0.32, 0.7 * 1.05 to 0.73, 1.005 to 1.0), so the tie
\* goes either way: tieUp is that choice.
round2(x) ==
    IF x = NaN THEN NaN
    ELSE LET n == x[1].n
             c == 10 * x[1].d       \* one cent, in units of 1 / d mills
             q == n \div c
             r == n % c
         IN  IF 2 * r < c THEN Num(10 * q)
             ELSE IF 2 * r > c THEN Num(10 * (q + 1))
             ELSE IF tieUp THEN Num(10 * (q + 1)) ELSE Num(10 * q)

suggest_dynamic_price(row) ==
    LET base_price == row.Base_Price
        forecast == row.Inventory_Forecast_Units
        branch == IF Gt(forecast, 70)
                  THEN [new_price |-> times(base_price, 105), action |-> INCREASE]
                  ELSE IF Lt(forecast, 40)
                  THEN [new_price |-> times(base_price, 90), action |-> DECREASE]
                  ELSE [new_price |-> times(base_price, 100), action |-> HOLD]
    IN  <<round2(branch.new_price), branch.action>>

WithSuggestion(row) ==
    LET s == suggest_dynamic_price(row)
    IN  [Product_ID |-> row.Product_ID, Store_ID |-> row.Store_ID,
         Region |-> row.Region,
         Inventory_Forecast_Units |-> row.Inventory_Forecast_Units,
         Base_Price |-> row.Base_Price, Competitor_Price |-> row.Competitor_Price,
         Suggested_Price |-> s[1], Pricing_Action |-> s[2]]

\* insights_df[[Suggested_Price, Pricing_Action]] = insights_df.apply(..., axis=1).
\* On a frame without rows, apply gives back a copy of the frame itself (its
\* six columns), and assigning six columns to the two keys raises ValueError
\* ("Columns must be same length as key").
apply_pricing(insights_df) ==
    IF insights_df = <<>> THEN Raised("ValueError")
    ELSE DataFrame([j \in DOMAIN insights_df |-> WithSuggestion(insights_df[j])])

get_retail_insights(d) ==
    IF d = None THEN None
    ELSE apply_pricing(merge(avg_sales(d.rows), latest_prices(d.rows)))

(***************************************************************************)
(* The insight engine on its own: any dataset of at most MaxRows rows,     *)
(* then one call.                                                          *)
(***************************************************************************)
Pending == [kind |-> "pending"]
Absent == [kind |-> "absent"]

Init ==
    /\ df \in Datasets
    /\ out = Pending
    /\ tieUp \in BOOLEAN
    /\ file = Absent
    /\ log = <<>>

Call ==
    /\ out = Pending
    /\ out' = get_retail_insights(DataFrame(df))
    /\ UNCHANGED <<df, tieUp, file, log>>

Next == Call

Spec == Init /\ [][Next]_vars

(***************************************************************************)
(* The file at DATA_FILE and pd.read_csv.                                  *)
(***************************************************************************)
\* descriptions of the errors read_csv raises on a file it cannot read or parse
ReadErrors == {"[Errno 13] Permission denied: 'retail_data.csv'",
               "No columns to parse from file"}
Unreadable(e) == [kind |-> "unreadable", err |-> e]
Csv(rows) == [kind |-> "csv", rows |-> rows]

\* CSV contents the file takes: a header without rows, one row (0.30 * 1.05 is
\* a rounding tie), two rows of one group (mean 55, 1.005 is a rounding tie)
FileDatasets ==
    {<<>>,
     <<Row(<<1, 1, 1>>, 100, <<Num(300), Num(280)>>)>>,
     <<Row(<<1, 1, 1>>, 10, <<Num(1005), Num(980)>>),
       Row(<<1, 1, 1>>, 100, <<Num(1005), Num(980)>>)>>}

Files == {Absent} \cup {Unreadable(e) : e \in ReadErrors}
             \cup {Csv(d) : d \in FileDatasets}

\* pd.read_csv(DATA_FILE): the frame, or the exception it raises
read_csv(f) ==
    IF f.kind = "csv" THEN DataFrame(f.rows)
    ELSE IF f.kind = "absent"
    THEN [kind |-> "raise", exc |-> "FileNotFoundError", description |-> DATA_FILE]
    ELSE [kind |-> "raise", exc |-> "Exception", description |-> f.err]

Tuple(d, error) == [kind |-> "tuple", df |-> d, error |-> error]

\* load_data whose generic handler drops the exception's text
load_data_NoDescription ==
    LET r == read_csv(file)
    IN  IF r.kind = "DataFrame" THEN Tuple(r, None)
        ELSE IF r.exc = "FileNotFoundError"
        THEN Tuple(None, Str(<<"Error: Data file '", DATA_FILE, "' not found.">>))
        ELSE Tuple(None, Str(<<"An unexpected error occurred.">>))

load_data ==
    LET r == read_csv(file)
    IN  IF r.kind = "DataFrame" THEN Tuple(r, None)
        ELSE IF r.exc = "FileNotFoundError"
        THEN Tuple(None, Str(<<"Error: Data file '", DATA_FILE, "' not found.">>))
        ELSE Tuple(None, Str(<<"An unexpected error occurred: ", r.description>>))

(***************************************************************************)
(* The Flask routes.  A response is what render_template was given, or the *)
(* 500 of a view that raised.                                              *)
(***************************************************************************)
to_html(frame, classes) == [kind |-> "html", classes |-> classes, rows |-> frame.rows]

Truthy(x) == x # None /\ x.parts # <<>>

Rendered(page, loaded, template, table, message) ==
    [page |-> page, file |-> file, loaded |-> loaded, status |-> 200,
     template |-> template, table |-> table, message |-> message]

ServerError(page, loaded) ==
    [page |-> page, file |-> file, loaded |-> loaded, status |-> 500,
     template |-> "", table |-> None, message |-> None]

Respond(r) ==
    /\ Len(log) < MaxRequests
    /\ log' = Append(log, r)
    /\ UNCHANGED <<df, out, tieUp, file>>

index_response ==
    LET loaded == load_data
        error == loaded.error
        message == IF Truthy(error) THEN error
                   ELSE Str(<<"Data fetched and insights generated successfully.">>)
        insights_df == IF loaded.df # None THEN get_retail_insights(loaded.df) ELSE None
    IN  IF insights_df.kind = "raise" THEN ServerError("index", loaded)
        ELSE Rendered("index", loaded, "index.html",
                      IF insights_df # None
                      THEN to_html(insights_df, "table table-bordered table-striped")
                      ELSE None,
                      message)

index == Respond(index_response)

\* raw_data_response that always reports success
raw_data_response_AlwaysSuccess ==
    LET loaded == load_data
    IN  Rendered("raw_data_page", loaded, "raw_data.html",
                 IF loaded.df # None
                 THEN to_html(loaded.df, "table table-bordered table-sm")
                 ELSE None,
                 Str(<<"Raw data loaded from CSV.">>))

raw_data_response ==
    LET loaded == load_data
        error == loaded.error
        message == IF Truthy(error) THEN error ELSE Str(<<"Raw data loaded from CSV.">>)
    IN  Rendered("raw_data_page", loaded, "raw_data.html",
                 IF loaded.df # None
                 THEN to_html(loaded.df, "table table-bordered table-sm")
                 ELSE None,
                 message)

raw_data_page == Respond(raw_data_response)

about_page == Respond(Rendered("about_page", None, "about.html", None, None))

contact_page == Respond(Rendered("contact_page", None, "contact.html", None, None))

\* the environment replaces, removes or locks the file between requests
ChangeFile ==
    /\ file' \in Files \ {file}
    /\ UNCHANGED <<df, out, tieUp, log>>

InitWeb ==
    /\ df = <<>>
    /\ out = Pending
    /\ tieUp \in BOOLEAN
    /\ file \in Files
    /\ log = <<>>

NextWeb ==
    \/ index
    \/ raw_data_page
    \/ about_page
    \/ contact_page
    \/ ChangeFile

SpecWeb == InitWeb /\ [][NextWeb]_vars

(***************************************************************************)
(* Vocabulary of the properties, stated on the input rows directly.        *)
(***************************************************************************)
Triples(d) == {key3(d[i]) : i \in DOMAIN d}
Pairs(d) == {key2(d[i]) : i \in DOMAIN d}
RowsOfTriple(d, t) == {i \in DOMAIN d : key3(d[i]) = t}
RowsOfPair(d, p) == {i \in DOMAIN d : key2(d[i]) = p}
LastOf(I) == CHOOSE i \in I : \A j \in I : j <= i

RECURSIVE SalesOver(_, _)
SalesOver(d, I) ==
    IF I = {} THEN 0
    ELSE LET i == CHOOSE x \in I : TRUE
         IN  d[i].Daily_Sales_Units + SalesOver(d, I \ {i})

Returned == out.kind = "DataFrame"
OutRows == IF Returned THEN {out.rows[j] : j \in DOMAIN out.rows} ELSE {}
Labels == {INCREASE, DECREASE, HOLD}

\* the forecast m of a row against the thresholds, as exact rationals
Above70(m) == m.num > 70 * m.den
Below40(m) == m.num < 40 * m.den
Between(m) == 40 * m.den <= m.num /\ m.num <= 70 * m.den
LabelFor(m) == IF Above70(m) THEN INCREASE ELSE IF Below40(m) THEN DECREASE ELSE HOLD

\* s (mills) is a whole number of cents at most half a cent from b * pct / 100
NearestCent(s, b, pct) ==
    /\ s % 10 = 0
    /\ 100 * s - pct * b <= 500
    /\ pct * b - 100 * s <= 500

(***************************************************************************)
(* C1: for every input dataset with N distinct (Product_ID, Store_ID,      *)
(* Region) triples the call returns a table of exactly N rows, one per     *)
(* distinct triple.                                                        *)
(***************************************************************************)
C1_OneRowPerTriple ==
    out # Pending =>
        /\ Returned
        /\ Len(out.rows) = Cardinality(Triples(df))
        /\ \A t \in Triples(df) :
               Cardinality({j \in DOMAIN out.rows : key3(out.rows[j]) = t}) = 1

\* The same statement for the datasets that have at least one row: it holds
\* there, also when a (Product_ID, Store_ID) pair occurs under two Regions.
C1_OneRowPerTriple_NonEmpty ==
    (out # Pending /\ df # <<>>) =>
        /\ Returned
        /\ Len(out.rows) = Cardinality(Triples(df))
        /\ \A t \in Triples(df) :
               Cardinality({j \in DOMAIN out.rows : key3(out.rows[j]) = t}) = 1

(***************************************************************************)
(* C2: in every output row Inventory_Forecast_Units is the arithmetic mean *)
(* of Daily_Sales_Units over exactly the input rows with the row's         *)
(* (Product_ID, Store_ID, Region).                                         *)
(***************************************************************************)
C2_ForecastIsGroupMean ==
    \A row \in OutRows :
        LET I == RowsOfTriple(df, key3(row))
            m == row.Inventory_Forecast_Units
        IN  /\ I # {}
            /\ m.den > 0
            /\ m.num * Cardinality(I) = SalesOver(df, I) * m.den

\* a (Product_ID, Store_ID) pair under two Regions whose means differ
C2_Witness ==
    /\ Returned
    /\ \E a \in OutRows, b \in OutRows :
           /\ key2(a) = key2(b) /\ a.Region # b.Region
           /\ a.Inventory_Forecast_Units.den = 2
           /\ a.Inventory_Forecast_Units # b.Inventory_Forecast_Units

(***************************************************************************)
(* C3: in every output row Base_Price and Competitor_Price are those of    *)
(* the last input row with the row's (Product_ID, Store_ID), whatever that *)
(* row's Region; and there is exactly one price snapshot per distinct      *)
(* (Product_ID, Store_ID) pair.                                            *)
(***************************************************************************)
C3_LatestPrices ==
    /\ \A row \in OutRows :
           LET last == LastOf(RowsOfPair(df, key2(row)))
           IN  /\ row.Base_Price = df[last].Base_Price
               /\ row.Competitor_Price = df[last].Competitor_Price
    /\ Returned =>
           LET lp == latest_prices(df)
           IN  /\ Len(lp) = Cardinality(Pairs(df))
               /\ \A p \in Pairs(df) :
                      Cardinality({j \in DOMAIN lp : key2(lp[j]) = p}) = 1

\* the last row of the pair is in another Region than the output row, and an
\* earlier row of the row's own Region carries other prices
C3_Witness ==
    \E row \in OutRows :
        LET last == LastOf(RowsOfPair(df, key2(row)))
        IN  /\ df[last].Region # row.Region
            /\ \E i \in RowsOfTriple(df, key3(row)) :
                   /\ i < last
                   /\ df[i].Base_Price # df[last].Base_Price
                   /\ df[i].Competitor_Price # df[last].Competitor_Price

(***************************************************************************)
(* C4: in every output row Pricing_Action is one of the three labels and   *)
(* is decided by the forecast alone: increase exactly when it is > 70,     *)
(* decrease exactly when it is < 40, hold exactly when 40 <= it <= 70.     *)
(***************************************************************************)
C4_ActionByThresholds ==
    \A row \in OutRows :
        LET m == row.Inventory_Forecast_Units
        IN  /\ row.Pricing_Action \in Labels
            /\ row.Pricing_Action = INCREASE <=> Above70(m)
            /\ row.Pricing_Action = DECREASE <=> Below40(m)
            /\ row.Pricing_Action = HOLD <=> Between(m)

\* one table holding a forecast of exactly 40 and one of exactly 70, both hold
C4_Witness ==
    \E a \in OutRows, b \in OutRows :
        /\ a.Inventory_Forecast_Units.num = 40 * a.Inventory_Forecast_Units.den
        /\ b.Inventory_Forecast_Units.num = 70 * b.Inventory_Forecast_Units.den
        /\ a.Pricing_Action = HOLD /\ b.Pricing_Action = HOLD

(***************************************************************************)
(* C5: in every output row with a non-null Base_Price, Suggested_Price is  *)
(* Base_Price * 1.05 rounded to two decimals when the forecast is > 70 and *)
(* Base_Price * 0.90 rounded to two decimals when it is < 40.              *)
(***************************************************************************)
C5_ScaledAndRounded ==
    \A row \in OutRows :
        row.Base_Price # NaN =>
            LET m == row.Inventory_Forecast_Units
                b == row.Base_Price[1]
            IN  /\ Above70(m) =>
                       /\ row.Suggested_Price # NaN
                       /\ NearestCent(row.Suggested_Price[1], b, 105)
                /\ Below40(m) =>
                       /\ row.Suggested_Price # NaN
                       /\ NearestCent(row.Suggested_Price[1], b, 90)

\* 1.005 * 1.05 = 1.05525 gives 1.06 in one row, 1.005 * 0.90 = 0.9045 gives
\* 0.90 in another
C5_Witness ==
    \E a \in OutRows, b \in OutRows :
        /\ Above70(a.Inventory_Forecast_Units)
        /\ a.Base_Price = Num(1005) /\ a.Suggested_Price = Num(1060)
        /\ Below40(b.Inventory_Forecast_Units)
        /\ b.Base_Price = Num(1005) /\ b.Suggested_Price = Num(900)

(***************************************************************************)
(* C6, as stated: in every output row with 40 <= forecast <= 70,           *)
(* Suggested_Price equals Base_Price unchanged, for every Base_Price.      *)
(***************************************************************************)
C6_HoldKeepsBasePrice ==
    \A row \in OutRows :
        Between(row.Inventory_Forecast_Units) =>
            row.Suggested_Price = row.Base_Price

(***************************************************************************)
(* C6, amended: in every output row with 40 <= forecast <= 70,             *)
(* Suggested_Price is Base_Price rounded to two decimals (null when        *)
(* Base_Price is null); it equals Base_Price when Base_Price has at most   *)
(* two decimals.                                                           *)
(***************************************************************************)
C6_HoldRoundsBasePrice ==
    \A row \in OutRows :
        Between(row.Inventory_Forecast_Units) =>
            IF row.Base_Price = NaN THEN row.Suggested_Price = NaN
            ELSE /\ row.Suggested_Price # NaN
                 /\ NearestCent(row.Suggested_Price[1], row.Base_Price[1], 100)
                 /\ row.Base_Price[1] % 10 = 0 =>
                        row.Suggested_Price = row.Base_Price

\* a hold row whose Base_Price 1.005 became 1.00 or 1.01, beside a hold row
\* whose Base_Price 0.30 stayed
C6_Witness ==
    \E a \in OutRows, b \in OutRows :
        /\ Between(a.Inventory_Forecast_Units)
        /\ a.Base_Price = Num(1005) /\ a.Suggested_Price \in {Num(1000), Num(1010)}
        /\ Between(b.Inventory_Forecast_Units)
        /\ b.Base_Price = Num(300) /\ b.Suggested_Price = Num(300)

(***************************************************************************)
(* C10: when the price snapshot of a triple has a null Base_Price the call *)
(* does not fail, the triple's row is kept with a null Suggested_Price,    *)
(* and its Pricing_Action is the label the 70/40 thresholds give.          *)
(***************************************************************************)
NullPriced(d) ==
    {t \in Triples(d) : d[LastOf(RowsOfPair(d, <<t[1], t[2]>>))].Base_Price = NaN}

C10_NullBasePrice ==
    (out # Pending /\ NullPriced(df) # {}) =>
        /\ Returned
        /\ \A t \in NullPriced(df) :
               \E j \in DOMAIN out.rows :
                   /\ key3(out.rows[j]) = t
                   /\ out.rows[j].Base_Price = NaN
        /\ \A row \in OutRows :
               row.Base_Price = NaN =>
                   /\ row.Suggested_Price = NaN
                   /\ row.Pricing_Action = LabelFor(row.Inventory_Forecast_Units)

\* null Base_Price rows under each of the three labels
C10_Witness ==
    \E a \in OutRows, b \in OutRows, c \in OutRows :
        /\ a.Base_Price = NaN /\ b.Base_Price = NaN /\ c.Base_Price = NaN
        /\ a.Suggested_Price = NaN /\ b.Suggested_Price = NaN
        /\ c.Suggested_Price = NaN
        /\ a.Pricing_Action = INCREASE
        /\ b.Pricing_Action = DECREASE
        /\ c.Pricing_Action = HOLD

(***************************************************************************)
(* Vocabulary of the properties about the served pages.                    *)
(***************************************************************************)
DataPages == {"index", "raw_data_page"}
Served == {log[i] : i \in DOMAIN log}
DataRequests == {e \in Served : e.page \in DataPages}
LoadFailed(f) == f.kind # "csv"
Mentions(msg, text) == \E k \in DOMAIN msg.parts : msg.parts[k] = text
SuccessMessage(page) ==
    IF page = "index"
    THEN Str(<<"Data fetched and insights generated successfully.">>)
    ELSE Str(<<"Raw data loaded from CSV.">>)

(***************************************************************************)
(* C7: load_data never raises; it returns either (dataset, no message) or  *)
(* (no dataset, message), never both null and never both set.  For an      *)
(* absent file the message names DATA_FILE; for any other read failure it  *)
(* holds the underlying error's description.                               *)
(***************************************************************************)
C7_LoaderTotal ==
    \A e \in DataRequests :
        LET r == e.loaded
        IN  /\ r.kind = "tuple"
            /\ (r.df = None) # (r.error = None)
            /\ r.df # None <=> ~LoadFailed(e.file)
            /\ r.df # None => r.df = DataFrame(e.file.rows)
            /\ e.file.kind = "absent" => Mentions(r.error, DATA_FILE)
            /\ e.file.kind = "unreadable" =>
                   /\ Mentions(r.error, e.file.err)
                   /\ ~Mentions(r.error, DATA_FILE)

\* the loader has run on an absent file and on an unreadable one
C7_Witness ==
    \E a \in DataRequests, b \in DataRequests :
        /\ a.file.kind = "absent" /\ a.loaded.df = None
        /\ b.file.kind = "unreadable" /\ b.loaded.df = None
        /\ Mentions(b.loaded.error, b.file.err)

Outcome(e) == <<e.status, e.template, e.table, e.message>>

SameContentsSameOutcome ==
    \A i \in DOMAIN log, j \in DOMAIN log :
        (log[i].page = log[j].page /\ log[i].file = log[j].file) =>
            Outcome(log[i]) = Outcome(log[j])

TableOfCurrentContents(e) ==
    /\ e.status = 200
    /\ e.table # None
    /\ e.page = "raw_data_page" => e.table.rows = e.file.rows
    /\ e.page = "index" =>
           /\ Len(e.table.rows) = Cardinality(Triples(e.file.rows))
           /\ \A j \in DOMAIN e.table.rows :
                  \E k \in DOMAIN e.file.rows :
                      key3(e.table.rows[j]) = key3(e.file.rows[k])

\* request j is served from a readable file after an earlier request failed to load
AfterFailure(j) ==
    /\ log[j].page \in DataPages
    /\ ~LoadFailed(log[j].file)
    /\ \E i \in DOMAIN log : i < j /\ log[i].page \in DataPages /\ LoadFailed(log[i].file)

C9_OutcomeFollowsFile ==
    /\ SameContentsSameOutcome
    /\ \A j \in DOMAIN log : AfterFailure(j) => TableOfCurrentContents(log[j])

\* The same statement with the CSV that has a header and no rows left out of
\* the second part: it holds.
C9_OutcomeFollowsFile_NonEmpty ==
    /\ SameContentsSameOutcome
    /\ \A j \in DOMAIN log :
           (AfterFailure(j) /\ log[j].file.rows # <<>>) =>
               TableOfCurrentContents(log[j])

====
